---- MODULE Spec2Model ----
(***************************************************************************)
(* keymorph: keyboard-layout text conversion (src/src/layouts.rs) and the  *)
(* /api/convert request handler (src/src/main.rs).                         *)
(*                                                                         *)
(* A char is modelled by its Unicode scalar value, a String by the         *)
(* sequence of its chars, a HashMap<char, char> by a function whose        *)
(* DOMAIN is its key set, and the KEYMAPS table by a function whose DOMAIN *)
(* is the set of <<from, to>> pairs it holds.                              *)
(***************************************************************************)
EXTENDS Integers, Sequences, FiniteSets

VARIABLES
  KEYMAPS,      \* the lazy_static table (meaningful once initialized)
  initialized,  \* whether the lazy_static initializer has run in this process
  op            \* the caller's current / last operation and what it observed

vars == <<KEYMAPS, initialized, op>>

----------------------------------------------------------------------------
(* LayoutCode and its parser                                               *)

LayoutCode == {"Dvorak", "Qwerty", "Colemak", "Russian"}

\* The peripheral layouts, in the order of the `layouts` vectors.
layouts == <<"Dvorak", "Colemak", "Russian">>

\* The four names LayoutCode::from_str matches, as char sequences.
name_dvorak  == <<100, 118, 111, 114, 97, 107>>          \* "dvorak"
name_qwerty  == <<113, 119, 101, 114, 116, 121>>         \* "qwerty"
name_colemak == <<99, 111, 108, 101, 109, 97, 107>>      \* "colemak"
name_russian == <<114, 117, 115, 115, 105, 97, 110>>     \* "russian"

\* str::to_lowercase on the ASCII range (the names drawn below are ASCII).
to_lowercase(input) ==
  [i \in DOMAIN input |->
     IF input[i] \in 65..90 THEN input[i] + 32 ELSE input[i]]

\* Result<LayoutCode, ()>: Err carries the unit value, the empty tuple.
Ok(v) == [ok |-> TRUE, val |-> v]
Err(e) == [ok |-> FALSE, err |-> e]

\* from_str without the to_lowercase call: an exact match.
from_str_exact(input) ==
  IF input = name_dvorak THEN Ok("Dvorak")
  ELSE IF input = name_qwerty THEN Ok("Qwerty")
  ELSE IF input = name_colemak THEN Ok("Colemak")
  ELSE IF input = name_russian THEN Ok("Russian")
  ELSE Err(<< >>)

from_str(input) ==
  LET s == to_lowercase(input) IN
    IF s = name_dvorak THEN Ok("Dvorak")
    ELSE IF s = name_qwerty THEN Ok("Qwerty")
    ELSE IF s = name_colemak THEN Ok("Colemak")
    ELSE IF s = name_russian THEN Ok("Russian")
    ELSE Err(<< >>)

----------------------------------------------------------------------------
(* HashMap helpers                                                         *)

\* HashMap::new()
EmptyMap == [k \in {} |-> 0]

\* HashMap::insert: a later insert of the same key replaces the value.
Insert(map, k, v) ==
  [x \in (DOMAIN map) \cup {k} |-> IF x = k THEN v ELSE map[x]]

\* The map left by a run of map.insert(k, v) calls, ins[i] = <<k, v>>.
HashMapOf(ins) ==
  [k \in {ins[i][1] : i \in DOMAIN ins} |->
     LET last == CHOOSE i \in DOMAIN ins :
                   /\ ins[i][1] = k
                   /\ \A j \in DOMAIN ins : ins[j][1] = k => j <= i
     IN ins[last][2]]

Values(map) == {map[k] : k \in DOMAIN map}

----------------------------------------------------------------------------
(* The seed maps                                                           *)

\* qwerty_to_dvorak: the map.insert calls of lines 132..198, in source order,
\* each as <<key, value>> (Unicode scalar values).
qwerty_to_dvorak_inserts ==
  << <<113, 39>>, <<119, 44>>, <<101, 46>>, <<114, 112>>, <<116, 121>>, <<121, 102>>,
     <<117, 103>>, <<105, 99>>, <<111, 114>>, <<112, 108>>, <<115, 111>>, <<100, 101>>,
     <<102, 117>>, <<103, 105>>, <<104, 100>>, <<106, 104>>, <<107, 116>>, <<108, 110>>,
     <<122, 59>>, <<120, 113>>, <<99, 106>>, <<118, 107>>, <<98, 120>>, <<110, 98>>,
     <<44, 119>>, <<46, 118>>, <<59, 115>>, <<47, 122>>, <<39, 45>>, <<91, 47>>,
     <<93, 61>>, <<45, 91>>, <<61, 93>>, <<81, 34>>, <<87, 60>>, <<69, 62>>,
     <<82, 80>>, <<84, 89>>, <<89, 70>>, <<85, 71>>, <<73, 67>>, <<79, 82>>,
     <<80, 76>>, <<83, 79>>, <<68, 69>>, <<70, 85>>, <<71, 73>>, <<72, 68>>,
     <<74, 72>>, <<75, 84>>, <<76, 78>>, <<90, 58>>, <<88, 81>>, <<67, 74>>,
     <<86, 75>>, <<66, 88>>, <<78, 66>>, <<60, 87>>, <<62, 86>>, <<58, 83>>,
     <<63, 90>>, <<34, 95>>, <<123, 63>>, <<125, 43>>, <<95, 123>>, <<43, 125>> >>

qwerty_to_dvorak == HashMapOf(qwerty_to_dvorak_inserts)

\* qwerty_to_colemak: the map.insert calls of lines 204..242, in source order,
\* each as <<key, value>> (Unicode scalar values).
qwerty_to_colemak_inserts ==
  << <<101, 102>>, <<114, 112>>, <<116, 103>>, <<121, 106>>, <<117, 108>>, <<105, 117>>,
     <<111, 121>>, <<112, 59>>, <<115, 114>>, <<100, 115>>, <<102, 116>>, <<103, 100>>,
     <<104, 104>>, <<106, 110>>, <<107, 101>>, <<108, 105>>, <<59, 112>>, <<39, 45>>,
     <<45, 39>>, <<69, 70>>, <<82, 80>>, <<84, 71>>, <<89, 74>>, <<85, 76>>,
     <<73, 85>>, <<79, 89>>, <<80, 58>>, <<83, 82>>, <<68, 83>>, <<70, 84>>,
     <<71, 68>>, <<72, 72>>, <<74, 78>>, <<75, 69>>, <<76, 73>>, <<58, 80>>,
     <<34, 95>>, <<95, 34>> >>

qwerty_to_colemak == HashMapOf(qwerty_to_colemak_inserts)

\* qwerty_to_russian: the map.insert calls of lines 248..314, in source order,
\* each as <<key, value>> (Unicode scalar values).
qwerty_to_russian_inserts ==
  << <<113, 1081>>, <<119, 1094>>, <<101, 1091>>, <<114, 1082>>, <<116, 1077>>, <<121, 1085>>,
     <<117, 1075>>, <<105, 1096>>, <<111, 1097>>, <<112, 1079>>, <<91, 1093>>, <<93, 1098>>,
     <<97, 1092>>, <<115, 1099>>, <<100, 1074>>, <<102, 1072>>, <<103, 1087>>, <<104, 1088>>,
     <<106, 1086>>, <<107, 1083>>, <<108, 1076>>, <<59, 1078>>, <<39, 1101>>, <<122, 1103>>,
     <<120, 1095>>, <<99, 1089>>, <<118, 1084>>, <<98, 1080>>, <<110, 1090>>, <<109, 1100>>,
     <<44, 1073>>, <<46, 1102>>, <<47, 46>>, <<81, 1049>>, <<87, 1062>>, <<69, 1059>>,
     <<82, 1050>>, <<84, 1045>>, <<89, 1053>>, <<85, 1043>>, <<73, 1064>>, <<79, 1065>>,
     <<80, 1047>>, <<123, 1061>>, <<125, 1066>>, <<65, 1060>>, <<83, 1067>>, <<68, 1042>>,
     <<70, 1040>>, <<71, 1055>>, <<72, 1056>>, <<74, 1054>>, <<75, 1051>>, <<76, 1044>>,
     <<58, 1046>>, <<34, 1069>>, <<90, 1071>>, <<88, 1063>>, <<67, 1057>>, <<86, 1052>>,
     <<66, 1048>>, <<78, 1058>>, <<77, 1068>>, <<60, 1041>>, <<62, 1070>>, <<63, 44>> >>

qwerty_to_russian == HashMapOf(qwerty_to_russian_inserts)
----------------------------------------------------------------------------
(* Table construction                                                      *)

\* invert_map collects (v, k) for the entries in HashMap iteration order,
\* which std leaves unspecified (RandomState): where several keys share a
\* value, whichever is visited last stays.  The result is one of these maps.
invert_map(map) ==
  LET shared == {v \in Values(map) :
                   Cardinality({k \in DOMAIN map : map[k] = v}) > 1}
      picks  == {p \in [shared -> DOMAIN map] : \A v \in shared : map[p[v]] = v}
  IN { [v \in Values(map) |->
          IF v \in shared THEN p[v]
          ELSE CHOOSE k \in DOMAIN map : map[k] = v] : p \in picks }

\* combine_maps with the entries whose value misses `second` left out.
combine_maps_drop(first, second) ==
  [k \in {x \in DOMAIN first : first[x] \in DOMAIN second} |-> second[first[k]]]

combine_maps(first, second) ==
  [k \in DOMAIN first |->
     IF first[k] \in DOMAIN second THEN second[first[k]] ELSE first[k]]

\* The loop of generate_inverse_maps from its i-th layout on: the tables it
\* can leave, one per outcome of the invert_map calls.
RECURSIVE InverseLoop(_, _)
InverseLoop(keymaps, i) ==
  IF i > Len(layouts) THEN {keymaps}
  ELSE LET layout == layouts[i] IN
    IF <<"Qwerty", layout>> \in DOMAIN keymaps
    THEN UNION { InverseLoop(Insert(keymaps, <<layout, "Qwerty">>, inverse_map), i + 1) :
                   inverse_map \in invert_map(keymaps[<<"Qwerty", layout>>]) }
    ELSE InverseLoop(keymaps, i + 1)

\* generate_inverse_maps with its loop starting one layout late.
generate_inverse_maps_skip(keymaps) == InverseLoop(keymaps, 2)

generate_inverse_maps(keymaps) == InverseLoop(keymaps, 1)

\* The body of the nested loops of generate_composite_maps for one (from, to).
CompositeStep(keymaps, from, to) ==
  IF /\ from # to
     /\ <<from, "Qwerty">> \in DOMAIN keymaps
     /\ <<"Qwerty", to>> \in DOMAIN keymaps
  THEN Insert(keymaps, <<from, to>>,
              combine_maps(keymaps[<<from, "Qwerty">>], keymaps[<<"Qwerty", to>>]))
  ELSE keymaps

\* The nested loops, from the n-th (from, to) iteration on (n counts from 0).
RECURSIVE CompositeLoop(_, _)
CompositeLoop(keymaps, n) ==
  IF n >= Len(layouts) * Len(layouts) THEN keymaps
  ELSE CompositeLoop(
         CompositeStep(keymaps, layouts[(n \div Len(layouts)) + 1],
                                layouts[(n % Len(layouts)) + 1]),
         n + 1)

generate_composite_maps(keymaps) == CompositeLoop(keymaps, 0)

\* The three seed inserts of create_keymaps.
SeedTable ==
  Insert(Insert(Insert(EmptyMap,
    <<"Qwerty", "Dvorak">>, qwerty_to_dvorak),
    <<"Qwerty", "Colemak">>, qwerty_to_colemak),
    <<"Qwerty", "Russian">>, qwerty_to_russian)

\* The tables create_keymaps can return.
create_keymaps ==
  { generate_composite_maps(keymaps) : keymaps \in generate_inverse_maps(SeedTable) }

\* Dereferencing the lazy_static: the first access runs create_keymaps once,
\* every later access sees that table.
Deref == IF initialized THEN {KEYMAPS} ELSE create_keymaps

----------------------------------------------------------------------------
(* Conversion                                                              *)

\* convert_text on table km: the returned String and what it wrote to stderr
\* (the pairs named by "Error: No conversion map found for .. to ..").
convert_text(km, text, from, to) ==
  IF <<from, to>> \in DOMAIN km
  THEN [out |-> [i \in DOMAIN text |->
                   IF text[i] \in DOMAIN km[<<from, to>>]
                   THEN km[<<from, to>>][text[i]] ELSE text[i]],
        stderr |-> << >>]
  ELSE [out |-> text, stderr |-> << <<from, to>> >>]

\* char::len_utf8, behind String::len.
len_utf8(c) ==
  IF c < 128 THEN 1 ELSE IF c < 2048 THEN 2 ELSE IF c < 65536 THEN 3 ELSE 4

\* String::len: the length in bytes of the UTF-8 encoding.
len(text) ==
  LET n(w) == Cardinality({i \in DOMAIN text : len_utf8(text[i]) = w})
  IN n(1) + 2 * n(2) + 3 * n(3) + 4 * n(4)

THRESHOLD == 1000
MAX_THREADS == 4

\* slice::chunks(chunk_size) over the chars: consecutive runs of chunk_size
\* elements, the last one shorter when the length is not a multiple.
chunks(chars, chunk_size) ==
  LET n == (Len(chars) + chunk_size - 1) \div chunk_size IN
    [j \in 1..n |->
       SubSeq(chars, (j - 1) * chunk_size + 1,
              IF j * chunk_size < Len(chars) THEN j * chunk_size ELSE Len(chars))]

\* A spawned worker's JoinHandle: not finished, or finished with its String.
Running == [finished |-> FALSE, value |-> << >>]
Finished(s) == [finished |-> TRUE, value |-> s]

\* The handles read in the order the workers finished.
JoinOrderByFinish(o) == o.finish_order

\* The order in which the join loop reads the handles: their index order.
JoinOrder(o) == [j \in DOMAIN o.handles |-> j]

\* Iterator<String>::collect::<String>(): the strings appended in order.
RECURSIVE Collect(_, _)
Collect(strings, order) ==
  IF order = << >> THEN << >>
  ELSE strings[Head(order)] \o Collect(strings, Tail(order))

----------------------------------------------------------------------------
(* The request handler                                                     *)

\* The two JSON responses of convert_text_handler.
OkResponse(converted_text) ==
  [code |-> 200, status |-> "success", data |-> converted_text]
BadRequest ==
  [code |-> 400, status |-> "error", message |-> "Invalid layout codes provided."]

----------------------------------------------------------------------------
(* Inputs                                                                  *)

\* How far above THRESHOLD the long inputs go.
MaxOver == 3

\* Every char of a seed map, and two chars of none (space, '1').
Alphabet ==
  UNION { (DOMAIN m) \cup Values(m) :
            m \in {qwerty_to_dvorak, qwerty_to_colemak, qwerty_to_russian} }
  \cup {32, 49}

word_hello  == <<104, 101, 108, 108, 111>>               \* "hello"
word_mixed  == <<80, 114, 59, 32, 1087, 97>>             \* "Pr; " + U+043F + "a"
word_privet == <<1087, 1088, 1080, 1074, 1077, 1090>>    \* "privet" in Cyrillic
word_hj     == <<104, 1081>>                             \* "h" + U+0439
word_rsemi  == <<114, 59>>                               \* "r;"

Words == {word_hello, word_mixed, word_privet}

ShortTexts == {<< >>} \cup {<<c>> : c \in Alphabet} \cup Words \cup {word_rsemi}

Repeat(pattern, n) == [i \in 1..n |-> pattern[((i - 1) % Len(pattern)) + 1]]

\* Char counts around THRESHOLD (single-byte text) and around half of it
\* (two-byte text), and a short one.
LongLens ==
  {5} \cup {THRESHOLD \div 2 + d : d \in -1..1}
      \cup {THRESHOLD + d : d \in -1..MaxOver}

LongTexts == {Repeat(p, n) : p \in {word_hello, word_privet, word_hj}, n \in LongLens}

\* The pairs the long inputs are converted between: hub to peripheral,
\* peripheral to hub, composite, same layout.
LongPairs ==
  {<<"Qwerty", "Dvorak">>, <<"Colemak", "Qwerty">>,
   <<"Dvorak", "Russian">>, <<"Russian", "Russian">>}

\* Layout names as a client may send them.
Names ==
  {name_dvorak, name_qwerty, name_colemak, name_russian,
   <<81, 87, 69, 82, 84, 89>>,                           \* "QWERTY"
   <<68, 118, 111, 114, 97, 107>>,                       \* "Dvorak"
   <<82, 117, 83, 115, 73, 97, 78>>,                     \* "RuSsIaN"
   <<97, 122, 101, 114, 116, 121>>,                      \* "azerty"
   <<113, 119, 101, 114, 116, 121, 32>>,                 \* "qwerty "
   << >>}                                                \* ""

----------------------------------------------------------------------------
(* State machine                                                           *)

Init ==
  /\ KEYMAPS = EmptyMap
  /\ initialized = FALSE
  /\ op = [kind |-> "none"]

\* The caller's last operation, if any, has returned.
Idle == op.kind = "parallel" => op.phase = "done"

\* A call of convert_text(text, from, to); prev is the call whose output
\* was passed as text, if any.
Call(km, text, from, to, prev) ==
  LET r == convert_text(km, text, from, to) IN
    [kind |-> "convert", text |-> text, from |-> from, to |-> to,
     out |-> r.out, stderr |-> r.stderr, prev |-> prev]

ConvertText(text, from, to) ==
  \E km \in Deref :
    /\ KEYMAPS' = km
    /\ initialized' = TRUE
    /\ op' = Call(km, text, from, to, << >>)

\* The caller converts the output of its last call, text in layout op.to,
\* on to another layout.
ConvertAgain(to) ==
  /\ op.kind = "convert"
  /\ op.prev = << >>
  /\ \E km \in Deref :
       /\ KEYMAPS' = km
       /\ initialized' = TRUE
       /\ op' = Call(km, op.out, op.to, to,
                     << [text |-> op.text, from |-> op.from, to |-> op.to] >>)

\* The process exits and is started again: its statics are uninitialized
\* anew; the caller keeps what it last observed.
Restart ==
  /\ initialized
  /\ Idle
  /\ KEYMAPS' = EmptyMap
  /\ initialized' = FALSE
  /\ UNCHANGED op

convert_text_handler(text, from_name, to_name) ==
  LET from_result == from_str(from_name)
      to_result   == from_str(to_name)
      request     == [text |-> text, from |-> from_name, to |-> to_name]
  IN
    IF from_result.ok /\ to_result.ok
    THEN \E km \in Deref :
           LET r == convert_text(km, text, from_result.val, to_result.val) IN
             /\ KEYMAPS' = km
             /\ initialized' = TRUE
             /\ op' = [kind |-> "handler", request |-> request,
                       from_result |-> from_result, to_result |-> to_result,
                       lookups |-> << <<from_result.val, to_result.val>> >>,
                       stderr |-> r.stderr, response |-> OkResponse(r.out)]
    ELSE /\ UNCHANGED <<KEYMAPS, initialized>>
         /\ op' = [kind |-> "handler", request |-> request,
                   from_result |-> from_result, to_result |-> to_result,
                   lookups |-> << >>,
                   stderr |-> << >>, response |-> BadRequest]

\* parallel_convert_text up to the end of its spawn loop (long input), or
\* to its return (input of at most THRESHOLD bytes).
ParallelStart(text, from, to) ==
  IF len(text) > THRESHOLD
  THEN LET chunk_size == len(text) \div MAX_THREADS
           cs == chunks(text, chunk_size)
       IN /\ UNCHANGED <<KEYMAPS, initialized>>
          /\ op' = [kind |-> "parallel", phase |-> "spawned",
                    text |-> text, from |-> from, to |-> to,
                    chunks |-> cs, handles |-> [j \in DOMAIN cs |-> Running],
                    finish_order |-> << >>, stderr |-> << >>, out |-> << >>]
  ELSE \E km \in Deref :
         LET r == convert_text(km, text, from, to) IN
           /\ KEYMAPS' = km
           /\ initialized' = TRUE
           /\ op' = [kind |-> "parallel", phase |-> "done",
                     text |-> text, from |-> from, to |-> to,
                     chunks |-> << >>, handles |-> << >>,
                     finish_order |-> << >>, stderr |-> r.stderr, out |-> r.out]

\* Worker j runs its closure, convert_text(chunk, from, to), to the end.
WorkerFinish(j) ==
  /\ ~op.handles[j].finished
  /\ \E km \in Deref :
       LET r == convert_text(km, op.chunks[j], op.from, op.to) IN
         /\ KEYMAPS' = km
         /\ initialized' = TRUE
         /\ op' = [op EXCEPT !.handles[j] = Finished(r.out),
                             !.finish_order = Append(@, j),
                             !.stderr = @ \o r.stderr]

\* The join loop: every handle joined, the Strings collected into one.
Join ==
  /\ op.kind = "parallel"
  /\ op.phase = "spawned"
  /\ \A j \in DOMAIN op.handles : op.handles[j].finished
  /\ UNCHANGED <<KEYMAPS, initialized>>
  /\ op' = [op EXCEPT !.phase = "done",
                      !.out = Collect([j \in DOMAIN op.handles |-> op.handles[j].value],
                                      JoinOrder(op))]

\* The caller takes the result and is free for a new operation.
Return ==
  /\ op.kind # "none"
  /\ Idle
  /\ op' = [kind |-> "none"]
  /\ UNCHANGED <<KEYMAPS, initialized>>

\* The caller makes its last convert_text call once more.
ConvertSame ==
  /\ op.kind = "convert"
  /\ \E km \in Deref :
       /\ KEYMAPS' = km
       /\ initialized' = TRUE
       /\ op' = Call(km, op.text, op.from, op.to, op.prev)

Next ==
  \/ \E text \in ShortTexts, from \in LayoutCode, to \in LayoutCode :
       op.kind = "none" /\ ConvertText(text, from, to)
  \/ \E to \in LayoutCode : ConvertAgain(to)
  \/ ConvertSame
  \/ \E text \in Words, from_name \in Names, to_name \in Names :
       op.kind = "none" /\ convert_text_handler(text, from_name, to_name)
  \/ \E text \in LongTexts, pair \in LongPairs :
       op.kind = "none" /\ ParallelStart(text, pair[1], pair[2])
  \/ /\ op.kind = "parallel"
     /\ op.phase = "spawned"
     /\ \E j \in DOMAIN op.handles : WorkerFinish(j)
  \/ Join
  \/ Restart
  \/ Return

Spec == Init /\ [][Next]_vars

----------------------------------------------------------------------------
(* Properties                                                              *)

Peripheral == {layouts[i] : i \in DOMAIN layouts}

\* The op is a convert_text call made on the output of an earlier call.
Chained == op.kind = "convert" /\ op.prev # << >>

\* C1 (as claimed): round trip.  For distinct layouts A, B and a text T whose
\* chars are all keys of the (A,B) map, converting T from A to B and the
\* result from B back to A returns T.
C1_RoundTrip ==
  (/\ initialized
   /\ Chained
   /\ op.prev[1].from # op.prev[1].to
   /\ op.from = op.prev[1].to
   /\ op.to = op.prev[1].from
   /\ <<op.prev[1].from, op.prev[1].to>> \in DOMAIN KEYMAPS
   /\ \A i \in DOMAIN op.prev[1].text :
        op.prev[1].text[i] \in DOMAIN KEYMAPS[<<op.prev[1].from, op.prev[1].to>>])
  => op.out = op.prev[1].text

\* C2: parallel_convert_text returns what convert_text returns on the same
\* text and pair, at every length around THRESHOLD and for every order in
\* which the workers finish.
C2_ParallelEqualsSequential ==
  (initialized /\ op.kind = "parallel" /\ op.phase = "done")
  => op.out = convert_text(KEYMAPS, op.text, op.from, op.to).out

\* C2 witness: a long input went through the workers, the first handle was
\* not the first to finish, and the conversion changed the text.
C2_Witness ==
  /\ initialized /\ op.kind = "parallel" /\ op.phase = "done"
  /\ len(op.text) = THRESHOLD + 1
  /\ Len(op.finish_order) > 1
  /\ op.finish_order[1] # 1
  /\ op.out # op.text
  /\ op.out = convert_text(KEYMAPS, op.text, op.from, op.to).out

\* C3 (as claimed): I2.  For each peripheral L the (L,Qwerty) map is the exact
\* inverse of the (Qwerty,L) map: every entry swapped is present, and the
\* two maps have the same number of entries.
C3_InverseExact ==
  initialized =>
    \A L \in Peripheral :
      LET fwd == KEYMAPS[<<"Qwerty", L>>]
          bwd == KEYMAPS[<<L, "Qwerty">>]
      IN /\ \A k \in DOMAIN fwd : fwd[k] \in DOMAIN bwd /\ bwd[fwd[k]] = k
         /\ Cardinality(DOMAIN fwd) = Cardinality(DOMAIN bwd)

\* C4: I1.  Once create_keymaps has run the table holds every ordered pair
\* of distinct layouts, and a convert_text call for two distinct layouts
\* writes no "No conversion map found" line.
C4_AllPairs ==
  initialized =>
    /\ \A A \in LayoutCode, B \in LayoutCode : A # B => <<A, B>> \in DOMAIN KEYMAPS
    /\ (op.kind = "convert" /\ op.from # op.to) => op.stderr = << >>

\* C4 witness: a call between two peripheral layouts found its map and
\* converted with it.
C4_Witness ==
  /\ initialized
  /\ op.kind = "convert"
  /\ op.from \in Peripheral /\ op.to \in Peripheral /\ op.from # op.to
  /\ op.stderr = << >>
  /\ op.out # op.text

\* C5: I3.  For distinct peripheral A, B the (A,B) map has exactly the keys
\* of (A,Qwerty); a key k with v = (A,Qwerty)[k] maps to (Qwerty,B)[v] when
\* v is a key of (Qwerty,B) and to v itself otherwise.
C5_Composite ==
  initialized =>
    \A A \in Peripheral, B \in Peripheral :
      A # B =>
        LET ab == KEYMAPS[<<A, B>>]
            aq == KEYMAPS[<<A, "Qwerty">>]
            qb == KEYMAPS[<<"Qwerty", B>>]
        IN /\ DOMAIN ab = DOMAIN aq
           /\ \A k \in DOMAIN aq :
                /\ aq[k] \in DOMAIN qb => ab[k] = qb[aq[k]]
                /\ aq[k] \notin DOMAIN qb => ab[k] = aq[k]

\* C5 witness: the built table has a composite entry of each kind, one
\* through a (Qwerty,B) entry and one kept on a miss.
C5_Witness ==
  /\ initialized
  /\ \E A \in Peripheral, B \in Peripheral :
       /\ A # B
       /\ \E k \in DOMAIN KEYMAPS[<<A, B>>] :
            /\ KEYMAPS[<<A, "Qwerty">>][k] \notin DOMAIN KEYMAPS[<<"Qwerty", B>>]
            /\ KEYMAPS[<<A, B>>][k] = KEYMAPS[<<A, "Qwerty">>][k]
       /\ \E k \in DOMAIN KEYMAPS[<<A, B>>] :
            /\ KEYMAPS[<<A, "Qwerty">>][k] \in DOMAIN KEYMAPS[<<"Qwerty", B>>]
            /\ KEYMAPS[<<A, B>>][k] # KEYMAPS[<<A, "Qwerty">>][k]

\* C6 (as claimed): a same-layout call returns the text unchanged and
\* writes no "No conversion map found" line.
C6_SameLayoutSilent ==
  (op.kind = "convert" /\ op.from = op.to)
  => (op.out = op.text /\ op.stderr = << >>)

\* The two char sequences are equal up to the case of ASCII letters.
EqIgnoreCase(a, b) ==
  /\ Len(a) = Len(b)
  /\ \A i \in DOMAIN a :
       \/ a[i] = b[i]
       \/ a[i] \in 65..90 /\ b[i] = a[i] + 32
       \/ b[i] \in 65..90 /\ a[i] = b[i] + 32

NameOf(layout) ==
  CASE layout = "Dvorak" -> name_dvorak
    [] layout = "Qwerty" -> name_qwerty
    [] layout = "Colemak" -> name_colemak
    [] layout = "Russian" -> name_russian

\* The parse result is right for the name: Ok(L) exactly for a name equal
\* to L's up to case.
ParsedRight(name, result) ==
  /\ result.ok <=> \E L \in LayoutCode : EqIgnoreCase(name, NameOf(L))
  /\ result.ok => EqIgnoreCase(name, NameOf(result.val))

C8_FourChunks ==
  (op.kind = "parallel" /\ len(op.text) > THRESHOLD) =>
    /\ Len(op.chunks) = MAX_THREADS
    /\ DOMAIN op.handles = DOMAIN op.chunks
    /\ \A j \in 1..(MAX_THREADS - 1) :
         j \in DOMAIN op.chunks => Len(op.chunks[j]) = Len(op.text) \div MAX_THREADS
    /\ Collect(op.chunks, [j \in DOMAIN op.chunks |-> j]) = op.text

\* C9 (as claimed): the table is the same in every process run, so the same
\* convert_text call returns the same output in every run.
C9_SameOutputEveryRun ==
  [][(/\ op.kind = "convert" /\ op'.kind = "convert" /\ op.prev = << >>
      /\ op'.text = op.text /\ op'.from = op.from /\ op'.to = op.to)
     => op'.out = op.out]_vars

\* C10 (as claimed): converting between two distinct peripheral layouts
\* directly gives what converting to Qwerty and on from Qwerty gives, for
\* every text.
C10_DirectEqualsViaHub ==
  (/\ initialized
   /\ Chained
   /\ op.prev[1].from \in Peripheral
   /\ op.prev[1].to = "Qwerty"
   /\ op.from = "Qwerty"
   /\ op.to \in Peripheral
   /\ op.to # op.prev[1].from)
  => op.out = convert_text(KEYMAPS, op.prev[1].text, op.prev[1].from, op.to).out

====
